---- MODULE Spec2Model ----
(***************************************************************************)
(* A model of fast_life (src/__init__.py): Conway's Life on a padded byte  *)
(* grid with fade-out intensities, the frame callback do_frame with its    *)
(* stagnation detector, and the four button handlers.                      *)
(*                                                                         *)
(* The board is scaled down: ROWS, COLS and MAX_ROUNDS are bounds of the   *)
(* model (the source sets 8, 32 and 200); every index computation is kept  *)
(* in terms of ROWS and COLS exactly as the source writes it.              *)
(***************************************************************************)
EXTENDS Integers, Sequences, FiniteSets, TLC

\* ------------------------------------------------------------------ bounds
\* Board height and width of the model (src/__init__.py:6-7 set 8 and 32).
ROWS == 4
COLS == 5
\* Round cap of the model (src/__init__.py:33 sets 200).
MAX_ROUNDS == 8
\* choice(COLORS) draws among the first MaxChoice colours.
MaxChoice == 2
\* Spec explores delays at most MaxSpeedSteps presses away from the default.
MaxSpeedSteps == 1

\* --------------------------------------------------------- program constants
COLORS ==
  << <<0, 255, 0>>, <<0, 0, 255>>, <<255, 0, 0>>, <<184, 233, 134>>,
     <<248, 183, 0>>, <<80, 227, 194>>, <<254, 19, 212>>, <<144, 19, 254>> >>

\* The module-level palette as the source initialises it (slot 9 of the
\* 1-based sequence is the source's palette[8]).
PALETTE_INIT ==
  << <<52, 41, 51>>, <<68, 50, 58>>, <<83, 60, 63>>, <<96, 71, 67>>,
     <<106, 84, 71>>, <<114, 98, 77>>, <<118, 113, 87>>, <<119, 128, 100>>,
     <<250, 250, 110>> >>

DEFAULT_SETTINGS == [delay_ms |-> 250, mode |-> "fade_out"]

DELAY_STEP == 25
TIMER_PERIOD == 25

CELL_COUNT == (COLS + 2) * (ROWS + 2)
OFFSET == COLS + 3

\* bytearray(CELL_COUNT): a fresh zero-filled buffer, indexed 0..CELL_COUNT-1.
bytearray == [p \in 0 .. (CELL_COUNT - 1) |-> 0]

\* Identities of the bytearray objects the four names are bound to.
BufIds == 0 .. 3

Max(a, b) == IF a >= b THEN a ELSE b
Bool(b) == IF b THEN 1 ELSE 0

VARIABLES
  heap,        \* BufIds -> contents of that bytearray
  board,       \* run_game's name bindings: the identity each name refers to
  next_board,
  board2,
  board3,
  round,       \* run_game's round counter
  reset_flag,  \* the module-level flag
  palette,     \* the module-level palette list (slot 9 is replaced on reset)
  settings,    \* the module-level settings dict
  store,       \* valuestore: <<>> when no record was saved, else <<record>>
  display,     \* the rgb driver: pixels, composition flag, background
  period,      \* the period the timer service holds: do_frame's last return value
  printed,     \* what the last do_frame call printed to the console
  evolved,     \* SpecEvolve only: evolve_board has been applied to the input grid
  calls,       \* the rgb calls of the last callback that called the driver, in order
  event        \* SpecConfig, SpecLoaded only: the callback the dispatcher invoked last

vars ==
  << heap, board, next_board, board2, board3, round, reset_flag, palette,
     settings, store, display, period, printed, evolved, calls, event >>

\* ----------------------------------------------------------- display driver
BLACK == <<0, 0, 0>>
GREY == <<127, 127, 127>>
OFF == <<>>
Pixels == (0 .. (COLS - 1)) \X (0 .. (ROWS - 1))

rgb_disablecomp(d) == [d EXCEPT !.comp = FALSE]
rgb_enablecomp(d) == [d EXCEPT !.comp = TRUE]
rgb_clear(d) == [d EXCEPT !.pixels = [xy \in Pixels |-> OFF]]
rgb_pixel(d, color, xy) == [d EXCEPT !.pixels[xy] = color]
rgb_background(d, color) == [d EXCEPT !.bg = color]

\* A call of the driver as it is recorded: <<name, color, position>>.
NONE == <<>>
DISABLECOMP == <<"disablecomp", NONE, NONE>>
ENABLECOMP == <<"enablecomp", NONE, NONE>>
CLEAR == <<"clear", NONE, NONE>>
PIXEL(color, xy) == <<"pixel", color, xy>>
BACKGROUND(color) == <<"background", color, NONE>>

\* What one recorded call does to the driver, and a sequence of them in order.
rgb_call(d, call) ==
  IF call[1] = "disablecomp" THEN rgb_disablecomp(d)
  ELSE IF call[1] = "enablecomp" THEN rgb_enablecomp(d)
  ELSE IF call[1] = "clear" THEN rgb_clear(d)
  ELSE IF call[1] = "pixel" THEN rgb_pixel(d, call[2], call[3])
  ELSE rgb_background(d, call[2])

RECURSIVE rgb_calls(_, _)
rgb_calls(d, cs) == IF cs = <<>> THEN d ELSE rgb_calls(rgb_call(d, Head(cs)), Tail(cs))

\* ------------------------------------------------------------- show_board
\* The positions the two nested loops of show_board and of evolve_board go
\* through: pos starts at OFFSET, is incremented after every cell and by two
\* more after every row.  The result lists <<r, c, pos>> in the order visited.
RECURSIVE loop_steps(_, _, _)
loop_steps(r, c, pos) ==
  IF r = ROWS THEN <<>>
  ELSE IF c = COLS THEN loop_steps(r + 1, 0, pos + 2)
  ELSE <<(<<r, c, pos>>)>> \o loop_steps(r, c + 1, pos + 1)

show_steps == loop_steps(0, 0, OFFSET)

\* The position show_board reads when it draws pixel <<c, r>>.
show_pos == [xy \in Pixels |->
              LET n == CHOOSE n \in DOMAIN show_steps :
                         show_steps[n][2] = xy[1] /\ show_steps[n][1] = xy[2]
              IN show_steps[n][3]]

\* Mutant of show_cell: in live mode a fading cell is drawn in the tint.
show_cell_live_draws_fading(old, v, mode, pal) ==
  IF v # 0
  THEN IF mode = "fade_out" THEN pal[v] ELSE pal[9]
  ELSE old

\* The body of the loops: what pixel <<c, r>> holds after the cell at pos was
\* visited, given what it held (OFF, after rgb.clear()).
show_cell(old, v, mode, pal) ==
  IF v # 0
  THEN IF mode = "fade_out"
       THEN pal[v]
       ELSE IF v = 9 THEN pal[9] ELSE old
  ELSE old

\* The calls show_board issues, in the order it issues them: the loops visit
\* show_steps in order and call rgb.pixel for the cells they draw.
show_pixel_calls(b, mode, pal) ==
  LET visit == [n \in DOMAIN show_steps |->
                  PIXEL(show_cell(NONE, b[show_steps[n][3]], mode, pal),
                        <<show_steps[n][2], show_steps[n][1]>>)]
      drawn(call) == call[2] # NONE
  IN SelectSeq(visit, drawn)

\* Mutant of show_calls: composition is enabled again before the pixels are written.
show_calls_enable_early(b, mode, pal) ==
  <<DISABLECOMP, CLEAR, ENABLECOMP>> \o show_pixel_calls(b, mode, pal)

show_calls(b, mode, pal) ==
  <<DISABLECOMP, CLEAR>> \o show_pixel_calls(b, mode, pal) \o <<ENABLECOMP>>

show_board(d, b, mode, pal) ==
  LET d1 == rgb_clear(rgb_disablecomp(d))
      d2 == [d1 EXCEPT !.pixels =
               [xy \in Pixels |-> show_cell(d1.pixels[xy], b[show_pos[xy]], mode, pal)]]
  IN rgb_enablecomp(d2)

\* -------------------------------------------------------- randomize_board
\* Mutant of randomize_index: the two padding cells between rows are not skipped.
randomize_index_no_padding(i) == OFFSET + i

\* The index the loop body writes at step i.
randomize_index(i) == OFFSET + i + 2 * (i \div COLS)

\* For every position, the loop steps i that write it.
randomize_writers ==
  [p \in 0 .. (CELL_COUNT - 1) |-> {i \in 0 .. (COLS * ROWS - 1) : randomize_index(i) = p}]

\* live is the set of loop indices i at which random() <= density came out
\* true.  A position keeps what the last step that wrote it left there.
randomize_board(b, live) ==
  [p \in 0 .. (CELL_COUNT - 1) |->
     IF randomize_writers[p] = {} THEN b[p]
     ELSE LET i == CHOOSE i \in randomize_writers[p] : \A j \in randomize_writers[p] : j <= i
          IN IF i \in live THEN 9 ELSE 0]

\* ----------------------------------------------------------- evolve_board
\* The number of the eight neighbours of pos that equal 9.
live_neighbours(board_in, pos) ==
  Bool(board_in[pos - COLS - 3] = 9)
  + Bool(board_in[pos - COLS - 2] = 9)
  + Bool(board_in[pos - COLS - 1] = 9)
  + Bool(board_in[pos - 1] = 9)
  + Bool(board_in[pos + 1] = 9)
  + Bool(board_in[pos + COLS + 1] = 9)
  + Bool(board_in[pos + COLS + 2] = 9)
  + Bool(board_in[pos + COLS + 3] = 9)

\* Mutant of evolve_cell: a fading neighbour counts as alive.
evolve_cell_counts_fading(board_in, pos) ==
  LET count ==
        Bool(board_in[pos - COLS - 3] # 0)
        + Bool(board_in[pos - COLS - 2] # 0)
        + Bool(board_in[pos - COLS - 1] # 0)
        + Bool(board_in[pos - 1] # 0)
        + Bool(board_in[pos + 1] # 0)
        + Bool(board_in[pos + COLS + 1] # 0)
        + Bool(board_in[pos + COLS + 2] # 0)
        + Bool(board_in[pos + COLS + 3] # 0)
  IN IF board_in[pos] = 9
     THEN IF count \in {2, 3} THEN 9 ELSE Max(0, board_in[pos] - 1)
     ELSE IF count = 3 THEN 9 ELSE Max(0, board_in[pos] - 1)

\* Mutant of evolve_cell: a live cell survives on two neighbours only.
evolve_cell_survive_on_two(board_in, pos) ==
  IF board_in[pos] = 9
  THEN IF live_neighbours(board_in, pos) = 2 THEN 9 ELSE Max(0, board_in[pos] - 1)
  ELSE IF live_neighbours(board_in, pos) = 3 THEN 9 ELSE Max(0, board_in[pos] - 1)

\* Mutant of evolve_cell: the decrement is not clamped at 0.
evolve_cell_unclamped(board_in, pos) ==
  IF board_in[pos] = 9
  THEN IF live_neighbours(board_in, pos) \in {2, 3} THEN 9 ELSE board_in[pos] - 1
  ELSE IF live_neighbours(board_in, pos) = 3 THEN 9 ELSE board_in[pos] - 1

\* Mutant of evolve_cell: a cell that does not live goes to 0 at once.
evolve_cell_no_fade(board_in, pos) ==
  IF board_in[pos] = 9
  THEN IF live_neighbours(board_in, pos) \in {2, 3} THEN 9 ELSE 0
  ELSE IF live_neighbours(board_in, pos) = 3 THEN 9 ELSE 0

\* One cell of the loop body: the value written to board_out[pos].
evolve_cell(board_in, pos) ==
  LET count == live_neighbours(board_in, pos)
  IN IF board_in[pos] = 9
     THEN IF count \in {2, 3} THEN 9 ELSE Max(0, board_in[pos] - 1)
     ELSE IF count = 3 THEN 9 ELSE Max(0, board_in[pos] - 1)

\* The positions the loops write, in the order they write them.
evolve_steps == loop_steps(0, 0, OFFSET)
evolve_positions == {evolve_steps[n][3] : n \in DOMAIN evolve_steps}

\* The loops when board_out is the very object board_in is: every cell written
\* is read back by the cells after it.
RECURSIVE evolve_in_place(_, _)
evolve_in_place(b, n) ==
  IF n > Len(evolve_steps) THEN b
  ELSE evolve_in_place([b EXCEPT ![evolve_steps[n][3]] = evolve_cell(b, evolve_steps[n][3])],
                       n + 1)

\* Mutant of evolve_board: a cell whose new value is 0 is not written.
evolve_board_skips_zero(h, bin, bout) ==
  [h EXCEPT ![bout] =
     [p \in 0 .. (CELL_COUNT - 1) |->
        IF p \in evolve_positions /\ evolve_cell(h[bin], p) # 0
        THEN evolve_cell(h[bin], p)
        ELSE h[bout][p]]]

\* evolve_board(board_in, board_out) on the objects bin and bout of the heap h.
evolve_board(h, bin, bout) ==
  [h EXCEPT ![bout] =
     IF bin = bout
     THEN evolve_in_place(h[bin], 1)
     ELSE [p \in 0 .. (CELL_COUNT - 1) |->
             IF p \in evolve_positions THEN evolve_cell(h[bin], p) ELSE h[bout][p]]]

\* ---------------------------------------------------------------- do_reset
\* The run state do_reset and do_frame work on, as one record.
RunState ==
  [heap |-> heap, board |-> board, next_board |-> next_board, board2 |-> board2,
   board3 |-> board3, round |-> round, reset_flag |-> reset_flag,
   palette |-> palette]

\* Mutant of fresh: two of the three names are bound to one new object.
fresh_shared(b) ==
  LET free == BufIds \ {b}
      lo == CHOOSE x \in free : \A y \in free : x <= y
      hi == CHOOSE x \in free : \A y \in free : x >= y
  IN <<lo, hi, hi>>

\* The three bytearray(CELL_COUNT) calls: three new objects, distinct from one
\* another and from the object board stays bound to.  The three objects they
\* replace are dropped by the same call, so their identities are the ones reused.
fresh(b) ==
  LET free == BufIds \ {b}
      lo == CHOOSE x \in free : \A y \in free : x <= y
      hi == CHOOSE x \in free : \A y \in free : x >= y
      mid == CHOOSE x \in free : x # lo /\ x # hi
  IN <<lo, mid, hi>>

\* Mutant of do_reset: the history grids and the round counter are kept.
do_reset_keeps_history(s, live, k) ==
  [s EXCEPT
     !.heap = [s.heap EXCEPT ![s.board] = randomize_board(s.heap[s.board], live)],
     !.palette = [s.palette EXCEPT ![9] = COLORS[k]],
     !.reset_flag = FALSE]

do_reset(s, live, k) ==
  LET f == fresh(s.board)
  IN [s EXCEPT
        !.heap = [id \in BufIds |->
                    IF id = s.board THEN randomize_board(s.heap[s.board], live)
                    ELSE bytearray],
        !.next_board = f[1],
        !.board2 = f[2],
        !.board3 = f[3],
        !.palette = [s.palette EXCEPT ![9] = COLORS[k]],
        !.round = 0,
        !.reset_flag = FALSE]

\* ---------------------------------------------------------------- do_frame
\* The outcomes of the random source that the model draws for one reset: the
\* cells, as <<row, col>>, at which random() <= density came out true.
SeedEmpty == {}
SeedSingle == {<<0, 0>>}
SeedBlock == {<<0, 0>>, <<0, 1>>, <<1, 0>>, <<1, 1>>}
SeedBlinker == {<<1, 0>>, <<1, 1>>, <<1, 2>>}
SeedTromino == {<<0, 0>>, <<0, 1>>, <<1, 0>>}
\* A blinker and, out of its reach, one cell that dies and fades.
SeedBlinkerDebris == {<<1, 0>>, <<1, 1>>, <<1, 2>>, <<3, 4>>}
\* On the 4 x 5 board these two run into a cycle of period 3 and of period 18.
SeedPeriod3 ==
  {<<0, 2>>, <<0, 3>>, <<1, 2>>, <<1, 4>>, <<2, 2>>, <<2, 4>>, <<3, 2>>, <<3, 3>>}
SeedPeriod18 == {<<1, 2>>, <<1, 3>>, <<1, 4>>, <<2, 0>>, <<2, 1>>, <<2, 2>>}

\* The loop indices i of randomize_board that visit the cells of a seed.
Indices(seed) == {rc[1] * COLS + rc[2] : rc \in seed}

RandomOutcomes ==
  {Indices(seed) : seed \in {SeedEmpty, SeedSingle, SeedBlock, SeedBlinker,
                             SeedBlinkerDebris, SeedTromino, SeedPeriod3,
                             SeedPeriod18}}
ConfigOutcomes == {Indices(seed) : seed \in {SeedEmpty}}
ChoiceOutcomes == 1 .. MaxChoice

FINISHED == <<"Board finished; resetting.">>
BORED == <<"Bored of this board; resetting.">>

\* Mutant of finished: board3 is not compared.
finished_two_grids(h, nb, b, b2, b3) == h[nb] = h[b] \/ h[nb] = h[b2]

\* Mutant of finished: only board is compared.
finished_one_grid(h, nb, b, b2, b3) == h[nb] = h[b]

\* next_board == board or next_board == board2 or next_board == board3
finished(h, nb, b, b2, b3) == h[nb] = h[b] \/ h[nb] = h[b2] \/ h[nb] = h[b3]

\* Mutant of bored: the cap is tested one round late.
bored_late(rnd) == rnd > MAX_ROUNDS + 1

\* round > MAX_ROUNDS, on the counter as already incremented
bored(rnd) == rnd > MAX_ROUNDS

\* Mutant of frame_return: the delay is not tripled.
frame_return_single(msg, delay_ms) == delay_ms

\* The value do_frame returns: three delays after reset_game(), one otherwise.
frame_return(msg, delay_ms) == IF msg # <<>> THEN delay_ms * 3 ELSE delay_ms

\* One call of do_frame, the random source yielding live and k if it is asked.
do_frame_with(live, k) ==
  \E s1 \in {IF reset_flag THEN do_reset(RunState, live, k) ELSE RunState} :
    \E h2 \in {evolve_board(s1.heap, s1.board, s1.next_board)} :
      \E msg \in {IF finished(h2, s1.next_board, s1.board, s1.board2, s1.board3)
                  THEN FINISHED
                  ELSE IF bored(s1.round + 1) THEN BORED ELSE <<>>} :
        /\ heap' = h2
        /\ palette' = s1.palette
        /\ display' = show_board(display, s1.heap[s1.board], settings.mode, s1.palette)
        /\ calls' = show_calls(s1.heap[s1.board], settings.mode, s1.palette)
        /\ printed' = msg
        /\ period' = frame_return(msg, settings.delay_ms)
        /\ UNCHANGED <<settings, store, evolved>>
        /\ round' = IF msg = FINISHED THEN s1.round ELSE s1.round + 1
        /\ IF msg # <<>>
           THEN \* reset_game(), and the return before the rotation
                /\ reset_flag' = TRUE
                /\ board' = s1.board /\ next_board' = s1.next_board
                /\ board2' = s1.board2 /\ board3' = s1.board3
           ELSE \* (board3, board2, board, next_board) = (board2, board, next_board, board3)
                /\ reset_flag' = s1.reset_flag
                /\ board3' = s1.board2
                /\ board2' = s1.board
                /\ board' = s1.next_board
                /\ next_board' = s1.board3

do_frame(outcomes) ==
  \E live \in (IF reset_flag THEN outcomes ELSE {{}}) :
    \E k \in (IF reset_flag THEN ChoiceOutcomes ELSE {1}) :
      do_frame_with(live, k)

\* ----------------------------------------------------------------- buttons
\* Mutant of valuestore_save: only the delay is written to the record.
valuestore_save_delay_only(rec) == <<[delay_ms |-> rec.delay_ms]>>

valuestore_save(rec) == <<rec>>

\* rgb.background(grey); time.sleep(0.1); rgb.background(black)
flash(d) == rgb_background(rgb_background(d, GREY), BLACK)
flash_calls == <<BACKGROUND(GREY), BACKGROUND(BLACK)>>

GameUnchanged ==
  UNCHANGED <<heap, board, next_board, board2, board3, round, palette, period, printed,
              evolved>>

\* Mutant of button_a: the press also sets the round counter to 0.
button_a_clears_round(pressed) ==
  /\ IF pressed
     THEN /\ display' = rgb_clear(display)
          /\ calls' = <<CLEAR>>
          /\ reset_flag' = TRUE
          /\ round' = 0
     ELSE UNCHANGED <<display, calls, reset_flag, round>>
  /\ UNCHANGED <<settings, store>>
  /\ UNCHANGED <<heap, board, next_board, board2, board3, palette, period, printed, evolved>>

button_a(pressed) ==
  /\ IF pressed
     THEN /\ display' = rgb_clear(display)
          /\ calls' = <<CLEAR>>
          /\ reset_flag' = TRUE
     ELSE UNCHANGED <<display, calls, reset_flag>>
  /\ UNCHANGED <<settings, store>>
  /\ GameUnchanged

\* Mutant of button_up: the limit is tested on the delay before the step is added.
button_up_checks_old(pressed) ==
  /\ IF pressed
     THEN IF settings.delay_ms <= 5000
          THEN /\ settings' = [settings EXCEPT !.delay_ms = settings.delay_ms + 25]
               /\ store' = valuestore_save(settings')
               /\ UNCHANGED <<display, calls>>
          ELSE /\ display' = flash(display)
               /\ calls' = flash_calls
               /\ UNCHANGED <<settings, store>>
     ELSE UNCHANGED <<settings, store, display, calls>>
  /\ UNCHANGED reset_flag
  /\ GameUnchanged

button_up(pressed) ==
  /\ IF pressed
     THEN LET new_delay == settings.delay_ms + 25
          IN IF new_delay <= 5000
             THEN /\ settings' = [settings EXCEPT !.delay_ms = new_delay]
                  /\ store' = valuestore_save(settings')
                  /\ UNCHANGED <<display, calls>>
             ELSE /\ display' = flash(display)
                  /\ calls' = flash_calls
                  /\ UNCHANGED <<settings, store>>
     ELSE UNCHANGED <<settings, store, display, calls>>
  /\ UNCHANGED reset_flag
  /\ GameUnchanged

\* Mutant of button_down: a press at the floor is ignored without the flash.
button_down_silent(pressed) ==
  /\ IF pressed /\ settings.delay_ms - 25 >= 25
     THEN /\ settings' = [settings EXCEPT !.delay_ms = settings.delay_ms - 25]
          /\ store' = valuestore_save(settings')
     ELSE UNCHANGED <<settings, store>>
  /\ UNCHANGED <<display, calls, reset_flag>>
  /\ GameUnchanged

button_down(pressed) ==
  /\ IF pressed
     THEN LET new_delay == settings.delay_ms - 25
          IN IF new_delay >= 25
             THEN /\ settings' = [settings EXCEPT !.delay_ms = new_delay]
                  /\ store' = valuestore_save(settings')
                  /\ UNCHANGED <<display, calls>>
             ELSE /\ display' = flash(display)
                  /\ calls' = flash_calls
                  /\ UNCHANGED <<settings, store>>
     ELSE UNCHANGED <<settings, store, display, calls>>
  /\ UNCHANGED reset_flag
  /\ GameUnchanged

\* Mutant of button_left: the press selects the live mode whatever the mode is.
button_left_sets_live(pressed) ==
  /\ IF pressed
     THEN /\ settings' = [settings EXCEPT !.mode = "live"]
          /\ store' = valuestore_save(settings')
     ELSE UNCHANGED <<settings, store>>
  /\ UNCHANGED <<display, calls, reset_flag>>
  /\ GameUnchanged

\* Mutant of button_left: the handler acts on the release as on the press.
button_left_on_release(pressed) ==
  /\ settings' = [settings EXCEPT
                    !.mode = IF settings.mode = "fade_out" THEN "live" ELSE "fade_out"]
  /\ store' = valuestore_save(settings')
  /\ UNCHANGED <<display, calls, reset_flag>>
  /\ GameUnchanged

button_left(pressed) ==
  /\ IF pressed
     THEN /\ settings' = [settings EXCEPT
                            !.mode = IF settings.mode = "fade_out" THEN "live" ELSE "fade_out"]
          /\ store' = valuestore_save(settings')
     ELSE UNCHANGED <<settings, store>>
  /\ UNCHANGED <<display, calls, reset_flag>>
  /\ GameUnchanged

\* ------------------------------------------------------------ run_game / Init
\* The state when run_game has registered its callbacks and started the timer.
START == <<"run_game", TRUE>>

Init ==
  /\ heap = [id \in BufIds |-> bytearray]
  /\ board = 0
  /\ next_board = 1
  /\ board2 = 2
  /\ board3 = 3
  /\ round = 0
  /\ reset_flag = TRUE
  /\ palette = PALETTE_INIT
  /\ settings = DEFAULT_SETTINGS
  /\ store = <<>>
  /\ display = [pixels |-> [xy \in Pixels |-> OFF], comp |-> TRUE, bg |-> BLACK]
  /\ period = TIMER_PERIOD
  /\ printed = <<>>
  /\ evolved = FALSE
  /\ calls = <<>>
  /\ event = START

\* The callbacks as the platform's dispatcher invokes them.
frame == do_frame(RandomOutcomes) /\ UNCHANGED event
press_a == \E pressed \in BOOLEAN : button_a(pressed) /\ UNCHANGED event
press_up == \E pressed \in BOOLEAN : button_up(pressed) /\ UNCHANGED event
press_down == \E pressed \in BOOLEAN : button_down(pressed) /\ UNCHANGED event
press_left == \E pressed \in BOOLEAN : button_left(pressed) /\ UNCHANGED event

\* Spec: every callback on every seed, with the speed buttons pressed only
\* while the delay stays within MaxSpeedSteps presses of the default.
InBand(d) ==
  /\ d >= DEFAULT_SETTINGS.delay_ms - DELAY_STEP * MaxSpeedSteps
  /\ d <= DEFAULT_SETTINGS.delay_ms + DELAY_STEP * MaxSpeedSteps

Next ==
  \/ frame
  \/ press_a
  \/ press_up /\ InBand(settings'.delay_ms)
  \/ press_down /\ InBand(settings'.delay_ms)
  \/ press_left

Spec == Init /\ [][Next]_vars

\* SpecConfig: every callback over the whole range of delays, on the empty seed,
\* the frame callback coming due at the default delay and at the two ends.
\* Here the callback invoked is recorded with its argument.
frame_config == do_frame(ConfigOutcomes) /\ event' = <<"do_frame", TRUE>>
event_a == \E pressed \in BOOLEAN : button_a(pressed) /\ event' = <<"button_a", pressed>>
event_up == \E pressed \in BOOLEAN : button_up(pressed) /\ event' = <<"button_up", pressed>>
event_down ==
  \E pressed \in BOOLEAN : button_down(pressed) /\ event' = <<"button_down", pressed>>
event_left ==
  \E pressed \in BOOLEAN : button_left(pressed) /\ event' = <<"button_left", pressed>>

NextConfig ==
  \/ frame_config /\ settings.delay_ms \in {25, DEFAULT_SETTINGS.delay_ms, 5000}
  \/ event_a
  \/ event_up
  \/ event_down
  \/ event_left

SpecConfig == Init /\ [][NextConfig]_vars

\* SpecLoaded: the same callbacks, started on the device, where the settings
\* are the defaults updated with what valuestore.load returned: nothing, a
\* record this program saved, or a record put in the store by other means.
settings_update(d, r) ==
  [delay_ms |-> IF "delay_ms" \in DOMAIN r THEN r.delay_ms ELSE d.delay_ms,
   mode |-> IF "mode" \in DOMAIN r THEN r.mode ELSE d.mode]

LoadedRecords ==
  {<<>>, [mode |-> "live"], [delay_ms |-> 4990], [delay_ms |-> 5000, mode |-> "live"]}

InitLoaded ==
  /\ heap = [id \in BufIds |-> bytearray]
  /\ board = 0
  /\ next_board = 1
  /\ board2 = 2
  /\ board3 = 3
  /\ round = 0
  /\ reset_flag = TRUE
  /\ palette = PALETTE_INIT
  /\ \E r \in LoadedRecords : settings = settings_update(DEFAULT_SETTINGS, r)
  /\ store = <<>>
  /\ display = [pixels |-> [xy \in Pixels |-> OFF], comp |-> TRUE, bg |-> BLACK]
  /\ period = TIMER_PERIOD
  /\ printed = <<>>
  /\ evolved = FALSE
  /\ calls = <<>>
  /\ event = START

SpecLoaded == InitLoaded /\ [][NextConfig]_vars

\* SpecEvents: the callbacks recorded as in SpecConfig, on a board that runs for
\* some frames before it repeats, the delay kept in the band of Spec.
EventOutcomes == {Indices(seed) : seed \in {SeedBlinker}}
frame_events == do_frame(EventOutcomes) /\ event' = <<"do_frame", TRUE>>

NextEvents ==
  \/ frame_events
  \/ event_a
  \/ event_up /\ InBand(settings'.delay_ms)
  \/ event_down /\ InBand(settings'.delay_ms)
  \/ event_left

SpecEvents == Init /\ [][NextEvents]_vars

\* ------------------------------------------------------------- SpecEvolve
\* evolve_board on its own: the input grids are a cell of any intensity among
\* any choice of fully-alive neighbours, everywhere on the board; the output of
\* one call is the input of the next.
Cells == 0 .. (CELL_COUNT - 1)
CellAt(col, row) == OFFSET + row * (COLS + 2) + col
LogicalCells == {CellAt(col, row) : col \in 0 .. (COLS - 1), row \in 0 .. (ROWS - 1)}
PaddingCells == Cells \ LogicalCells
RowOf(p) == p \div (COLS + 2)
ColOf(p) == p % (COLS + 2)
NeighboursOf ==
  [p \in Cells |-> {q \in Cells : /\ q # p
                                 /\ RowOf(q) - RowOf(p) \in {-1, 0, 1}
                                 /\ ColOf(q) - ColOf(p) \in {-1, 0, 1}}]
Neighbours(p) == NeighboursOf[p]

InputGrids ==
  {[q \in Cells |-> IF q = p THEN v ELSE IF q \in alive THEN 9 ELSE 0] :
     <<p, alive, v>> \in
       UNION {{p} \X (SUBSET (Neighbours(p) \cap LogicalCells)) \X (0 .. 9) :
                p \in LogicalCells}}

InitEvolve ==
  /\ \E g \in InputGrids : heap = [id \in BufIds |-> IF id = 0 THEN g ELSE bytearray]
  /\ board = 0
  /\ next_board = 1
  /\ board2 = 2
  /\ board3 = 3
  /\ round = 0
  /\ reset_flag = TRUE
  /\ palette = PALETTE_INIT
  /\ settings = DEFAULT_SETTINGS
  /\ store = <<>>
  /\ display = [pixels |-> [xy \in Pixels |-> OFF], comp |-> TRUE, bg |-> BLACK]
  /\ period = TIMER_PERIOD
  /\ printed = <<>>
  /\ evolved = FALSE
  /\ calls = <<>>
  /\ event = START

\* evolve_board(board, next_board), and the two names exchanged for the next call.
evolve_step ==
  /\ heap' = evolve_board(heap, board, next_board)
  /\ board' = next_board
  /\ next_board' = board
  /\ evolved' = TRUE
  /\ UNCHANGED <<board2, board3, round, reset_flag, palette, settings, store, display,
                 period, printed, calls, event>>

NextEvolve == evolve_step

SpecEvolve == InitEvolve /\ [][NextEvolve]_vars

\* ------------------------------------------------------------------ claims
\* What the claims speak of, stated on grid coordinates and not on the loops.
ZeroGrid == [p \in Cells |-> 0]
LiveCount(g, p) == Cardinality({q \in Neighbours(p) : g[q] = 9})
Rule(g, p) ==
  IF g[p] = 9 /\ LiveCount(g, p) \in {2, 3} THEN 9
  ELSE IF g[p] \in 0 .. 8 /\ LiveCount(g, p) = 3 THEN 9
  ELSE Max(0, g[p] - 1)
Names == {board, next_board, board2, board3}

\* After a do_frame call: the grid it rendered and evolved, and the grid it
\* produced.  A call that printed returned before the rotation, so the pair is
\* (board, next_board); a call that did not print rotated it to (board2, board).
FrameRan == printed # <<>> \/ round >= 1
Source == IF printed # <<>> THEN heap[board] ELSE heap[board2]
Evolved == IF printed # <<>> THEN heap[next_board] ELSE heap[board]
\* The two grids before the one rendered, as the call compared them.
Back1 == IF printed # <<>> THEN heap[board2] ELSE heap[board3]
Back2 == IF printed # <<>> THEN heap[board3] ELSE heap[next_board]

\* A step of Next that is no call of a button handler is a call of do_frame.
ButtonStep == press_a \/ press_up \/ press_down \/ press_left
FrameStep == ~ButtonStep

\* C1: for every input grid with cells in 0..9 and zero padding, evolve_board
\* writes to each logical cell 9 if the cell is 9 with 2 or 3 neighbours equal to
\* 9, 9 if the cell is in 0..8 with exactly 3 neighbours equal to 9, and
\* max(0, cell - 1) otherwise; neighbours of intensity 1..8 do not count.
\* (SpecEvolve: heap[next_board] is the input of the last call, heap[board] its output.)
C1_EvolveRule ==
  evolved =>
    /\ \A p \in Cells : heap[next_board][p] \in 0 .. 9
    /\ \A p \in PaddingCells : heap[next_board][p] = 0
    /\ \A p \in LogicalCells : heap[board][p] = Rule(heap[next_board], p)

\* C1 witness: one call saw a survival, a birth and a death, next to a fading
\* neighbour that was not counted.
C1_Witness ==
  /\ evolved
  /\ \E p \in LogicalCells : heap[next_board][p] = 9 /\ heap[board][p] = 9
  /\ \E p \in LogicalCells : heap[next_board][p] \in 0 .. 8 /\ heap[board][p] = 9
  /\ \E p \in LogicalCells : heap[next_board][p] = 9 /\ heap[board][p] = 8
  /\ \E p \in LogicalCells :
       /\ heap[next_board][p] = 9
       /\ LiveCount(heap[next_board], p) = 3
       /\ \E q \in Neighbours(p) : heap[next_board][q] \in 1 .. 8

\* C2: in every reachable state the padding cells of the current grid, the next
\* grid and both history grids are 0, randomize_board and evolve_board writing
\* only to the logical cells OFFSET + row*(COLS+2) + col.
C2_PaddingZero ==
  /\ \A id \in Names : \A p \in PaddingCells : heap[id][p] = 0
  /\ evolve_positions \subseteq LogicalCells
  /\ {randomize_index(i) : i \in 0 .. (COLS * ROWS - 1)} \subseteq LogicalCells

\* C2 witness: frames, a speed or mode press and a reset have happened, and
\* the current grid has fully-alive cells in a corner and on the far edges.
C2_Witness ==
  /\ round >= 2
  /\ store # <<>>
  /\ heap[board][CellAt(0, 0)] = 9
  /\ \E row \in 0 .. (ROWS - 1) : heap[board][CellAt(COLS - 1, row)] = 9
  /\ \E col \in 0 .. (COLS - 1) : heap[board][CellAt(col, ROWS - 1)] = 9

\* C3 as stated: a frame marks the run stagnant by equality exactly when the new
\* grid equals the grid it was evolved from or the grid one generation before
\* that one; no repeat of a period longer than 2 sets the flag.
C3_Original ==
  FrameRan => (printed = FINISHED <=> (Evolved = Source \/ Evolved = Back1))

\* C3 as amended: a frame marks the run stagnant by equality exactly when the new
\* grid equals the contents of board, of board2 or of board3, that is the grid it
\* was evolved from or one of the two before it, so that a repeat of period 3 is
\* caught as well; a frame so marked sets the flag, and otherwise only the round
\* cap does.
C3_StagnantByEquality ==
  FrameRan =>
    /\ printed = FINISHED <=> (Evolved = Source \/ Evolved = Back1 \/ Evolved = Back2)
    /\ printed = FINISHED => reset_flag
    /\ printed = <<>> => round <= MAX_ROUNDS
    /\ printed = BORED => round > MAX_ROUNDS /\ reset_flag

\* C3 witness: a run of period 3 was marked, the new grid equal to neither the
\* grid it came from nor the one before it.
C3_Witness ==
  /\ printed = FINISHED
  /\ Evolved # Source
  /\ Evolved # Back1
  /\ Evolved = Back2
  /\ Evolved # ZeroGrid

\* C4: on a run where no evolved grid equals a tracked earlier grid, the frame
\* that raises the round counter above the cap sets the reset-pending flag and
\* returns three delays; so the counter never exceeds the cap plus one, and a run
\* whose frames each count one round goes on with the flag clear for at most cap
\* frames after a reset, the next one setting it.
C4_RoundCap ==
  /\ [](round <= MAX_ROUNDS + 1)
  /\ [](~reset_flag => round <= MAX_ROUNDS)
  /\ [][FrameStep /\ round' > MAX_ROUNDS =>
          /\ reset_flag'
          /\ printed' = BORED
          /\ period' = 3 * settings.delay_ms]_vars
  /\ [][FrameStep /\ ~reset_flag' => round' = (IF reset_flag THEN 0 ELSE round) + 1]_vars

\* C4 witness: the cap ended a run none of whose grids repeated.
C4_Witness ==
  /\ printed = BORED
  /\ round = MAX_ROUNDS + 1
  /\ reset_flag
  /\ period = 3 * settings.delay_ms
  /\ Evolved \notin {Source, Back1, Back2}

\* The blinker: three cells in a row or in a column about a centre both of whose
\* phases lie inside the logical board.
STRIDE == COLS + 2
HTriple(c) == {c - 1, c, c + 1}
VTriple(c) == {c - STRIDE, c, c + STRIDE}
BlinkerCentres == {c \in LogicalCells : (HTriple(c) \cup VTriple(c)) \subseteq LogicalCells}
LiveSet(g) == {p \in Cells : g[p] = 9}
IsBlinker(g) == \E c \in BlinkerCentres : LiveSet(g) \in {HTriple(c), VTriple(c)}
\* No nonzero cell lies outside the five cells the two phases cover.
BlinkerAlone(g) ==
  \E c \in BlinkerCentres :
    /\ LiveSet(g) \in {HTriple(c), VTriple(c)}
    /\ \A p \in Cells \ (HTriple(c) \cup VTriple(c)) : g[p] = 0
Alternates ==
  FrameRan =>
    \A c \in BlinkerCentres :
      /\ LiveSet(Source) = HTriple(c) => LiveSet(Evolved) = VTriple(c)
      /\ LiveSet(Source) = VTriple(c) => LiveSet(Evolved) = HTriple(c)
\* The last call of do_frame began at round 2 or later, so that the grid two
\* before the one it rendered is a grid of this run.
TwoRoundsIn == FrameRan /\ round >= (IF printed = FINISHED THEN 2 ELSE 3)

\* C5 as stated: on a grid whose only fully-alive cells form a blinker the set of
\* cells at 9 alternates between the horizontal and the vertical triple at every
\* step, and the frame loop sets the reset-pending flag within 2 rounds of the
\* fully-alive cells having become a blinker, whatever the other cells hold.
C5_Original ==
  /\ Alternates
  /\ TwoRoundsIn /\ IsBlinker(Back2) => printed # <<>>

\* C5 as amended: the set of cells at 9 alternates as stated; the frame loop
\* marks the run finished within 2 rounds of a grid whose fully-alive cells form
\* a blinker and whose cells outside the blinker's two phases are all 0.  Grids
\* are compared with their intensities, so a remnant still fading elsewhere on
\* the board puts the detection off until it has reached 0.
C5_BlinkerDetected ==
  /\ Alternates
  /\ TwoRoundsIn /\ BlinkerAlone(Back2) => printed = FINISHED /\ reset_flag

\* C5 witness: a blinker was rendered twice and the third frame found the new
\* grid equal to the grid one before the one it came from.
C5_Witness ==
  /\ printed = FINISHED
  /\ round = 2
  /\ reset_flag
  /\ BlinkerAlone(Back2)
  /\ \E c \in BlinkerCentres :
       /\ LiveSet(Back2) = HTriple(c)
       /\ LiveSet(Back1) = VTriple(c)
       /\ LiveSet(Source) = HTriple(c)
       /\ LiveSet(Evolved) = VTriple(c)
  /\ Evolved = Back1
  /\ Evolved # Source

\* The grid holding a 2x2 block of 9s with its top left cell at (col, row).
BlockCells(col, row) ==
  {CellAt(col, row), CellAt(col + 1, row), CellAt(col, row + 1), CellAt(col + 1, row + 1)}
BlockGrid(col, row) == [p \in Cells |-> IF p \in BlockCells(col, row) THEN 9 ELSE 0]
BlockGrids == {BlockGrid(col, row) : col \in 0 .. (COLS - 2), row \in 0 .. (ROWS - 2)}

\* C6: evolve_board maps the all-zero grid to the all-zero grid, and a grid whose
\* only nonzero cells are a 2x2 block of 9s, anywhere in the logical board, edges
\* and corners included, to itself; so it does at every later step.
\* (SpecEvolve: heap[next_board] is the input of the last call, heap[board] its output.)
C6_StillLifes ==
  evolved /\ heap[next_board] \in (BlockGrids \cup {ZeroGrid}) => heap[board] = heap[next_board]

\* C6 witness: the block in the top left corner came out of a call unchanged.
C6_Witness ==
  /\ evolved
  /\ heap[next_board] = BlockGrid(0, 0)
  /\ heap[board] = BlockGrid(0, 0)

\* C7: every cell of every grid is in 0..9; a cell at k in 1..8 without exactly 3
\* neighbours at 9 is at k - 1 after the step, and a cell at 0 without exactly 3
\* neighbours at 9 stays at 0.
C7_IntensityRange ==
  /\ \A id \in BufIds : \A p \in Cells : heap[id][p] \in 0 .. 9
  /\ FrameRan =>
       \A p \in LogicalCells :
         LiveCount(Source, p) # 3 =>
           /\ Source[p] \in 1 .. 8 => Evolved[p] = Source[p] - 1
           /\ Source[p] = 0 => Evolved[p] = 0

\* C7 witness: a cell that had faded from 9 down to 1 went to 0, and a cell at 0
\* stayed at 0.
C7_Witness ==
  /\ FrameRan
  /\ round = MAX_ROUNDS + 1
  /\ \E p \in LogicalCells : Source[p] = 1 /\ Evolved[p] = 0
  /\ \E p \in LogicalCells : Source[p] = 0 /\ Evolved[p] = 0 /\ LiveCount(Source, p) # 3

\* The tint pool, as the set of its entries.
Tints == {COLORS[k] : k \in DOMAIN COLORS}

\* C8: a frame that starts with the reset-pending flag set, the first one
\* included, begins with do_reset: the grid it renders and evolves has every
\* logical cell 0 or 9, both history grids are all zero, the rounds are counted
\* from 0, the tint is one of the tint pool with the other palette entries kept,
\* and the flag is cleared, so that it is set after the frame only if this frame
\* marked the run stagnant; the rendering shows the new grid in the new tint.  A
\* frame that starts with the flag clear renders and evolves the grid it was
\* handed, keeps the palette, the history grids and the count of rounds.
C8_ResetAtFrameStart ==
  [][FrameStep =>
       /\ reset_flag' = (printed' # <<>>)
       /\ display' = show_board(display, Source', settings.mode, palette')
       /\ \A p \in LogicalCells : Evolved'[p] = Rule(Source', p)
       /\ IF reset_flag
          THEN /\ \A p \in LogicalCells : Source'[p] \in {0, 9}
               /\ \A p \in PaddingCells : Source'[p] = 0
               /\ Back1' = ZeroGrid
               /\ Back2' = ZeroGrid
               /\ round' = (IF printed' = FINISHED THEN 0 ELSE 1)
               /\ palette'[9] \in Tints
               /\ \A i \in 1 .. 8 : palette'[i] = palette[i]
          ELSE /\ Source' = heap[board]
               /\ Back1' = heap[board2]
               /\ Back2' = heap[board3]
               /\ round' = (IF printed' = FINISHED THEN round ELSE round + 1)
               /\ palette' = palette]_vars

\* C8 witness: a frame that began with the flag set has run after a press that
\* saved the settings: it shows a new grid with live cells in the second tint
\* of the pool, the history is all zero, one round is counted, the flag is clear.
C8_Witness ==
  /\ printed = <<>>
  /\ round = 1
  /\ ~reset_flag
  /\ store # <<>>
  /\ palette[9] = COLORS[2]
  /\ Back1 = ZeroGrid
  /\ Back2 = ZeroGrid
  /\ Source # ZeroGrid
  /\ \A p \in LogicalCells : Source[p] \in {0, 9}
  /\ \E xy \in Pixels : display.pixels[xy] = COLORS[2]

\* C9: every call of do_frame returns a positive integer: three times the
\* delay_ms of that frame when the frame marks the run stagnant, by a repeat or
\* by the round cap, and delay_ms otherwise, the frame after a press of the
\* reset button included; the frame marks the run stagnant exactly when it
\* leaves the reset-pending flag set.
C9_FrameReturn ==
  [][FrameStep =>
       /\ period' \in Nat \ {0}
       /\ printed' \in {FINISHED, BORED} => period' = 3 * settings.delay_ms /\ reset_flag'
       /\ printed' = <<>> => period' = settings.delay_ms /\ ~reset_flag'
       /\ printed' \in {FINISHED, BORED, <<>>}
       /\ settings' = settings]_vars

\* C9 witness: a frame run at a delay other than the default found a repeat and
\* returned three times that delay.
C9_Witness ==
  /\ printed = FINISHED
  /\ settings.delay_ms = DEFAULT_SETTINGS.delay_ms + DELAY_STEP
  /\ period = 3 * (DEFAULT_SETTINGS.delay_ms + DELAY_STEP)
  /\ round >= 1

\* C10: from the default configuration, whatever presses and frames follow,
\* delay_ms is in 25..5000 and a multiple of 25; a speed-up at 4975 gives 5000
\* and a speed-down at 50 gives 25.
\* (SpecConfig: the presses are unrestricted, the frames run on the empty board.)
C10_DelayRange ==
  /\ [](settings.delay_ms \in 25 .. 5000 /\ settings.delay_ms % 25 = 0)
  /\ [][button_up(TRUE) /\ settings.delay_ms = 4975 => settings'.delay_ms = 5000]_vars
  /\ [][button_down(TRUE) /\ settings.delay_ms = 50 => settings'.delay_ms = 25]_vars

\* C10 witness: a frame ran at the upper bound and the delay was then brought
\* down to the lower bound.
C10_Witness ==
  /\ settings.delay_ms = 25
  /\ period = 3 * 5000
  /\ store = valuestore_save(settings)

\* The callback whose return led to the state, where it is recorded.
Pressed(handler) == event = <<handler, TRUE>>
Released(handler) == event = <<handler, FALSE>>
Handlers == {"button_a", "button_up", "button_down", "button_left"}

\* C11: a press of speed-up whose result would exceed 5000 (from 4990 as from
\* 5000) and a press of speed-down whose result would fall below 25 leave
\* delay_ms, mode and the saved record as they were and issue no save; the
\* background is set to grey and then to black again, nothing else on the
\* display changes, and the handler returns as any other.
C11_DeniedPress ==
  [][(\/ Pressed("button_up")' /\ settings.delay_ms + 25 > 5000
      \/ Pressed("button_down")' /\ settings.delay_ms - 25 < 25) =>
       /\ settings' = settings
       /\ store' = store
       /\ calls' = <<BACKGROUND(GREY), BACKGROUND(BLACK)>>
       /\ display' = rgb_calls(display, calls')
       /\ display'.bg = BLACK
       /\ display'.pixels = display.pixels
       /\ UNCHANGED <<heap, board, next_board, board2, board3, round, reset_flag, palette,
                      period, printed>>]_vars

\* C11 witness: speed-up was pressed at 4990, a delay the store held at startup:
\* the delay is still 4990, nothing was saved and the background was flashed.
C11_Witness ==
  /\ Pressed("button_up")
  /\ settings.delay_ms = 4990
  /\ store = <<>>
  /\ calls = <<BACKGROUND(GREY), BACKGROUND(BLACK)>>
  /\ display.bg = BLACK

Modes == {"fade_out", "live"}
OtherMode(m) == IF m = "fade_out" THEN "live" ELSE "fade_out"

\* C12: a press of the mode button changes mode from fade_out to live and from
\* live to fade_out and leaves the delay alone; the mode is always one of the
\* two, and no other callback, a frame included, changes it: so a second press,
\* whatever frames come in between, brings back the mode the first one found.
C12_ModeToggle ==
  /\ [](settings.mode \in Modes)
  /\ [][Pressed("button_left")' =>
          /\ settings'.mode = OtherMode(settings.mode)
          /\ OtherMode(settings'.mode) = settings.mode
          /\ settings'.delay_ms = settings.delay_ms]_vars
  /\ [][~Pressed("button_left")' => settings'.mode = settings.mode]_vars

\* C12 witness: the mode is fade_out as at the start, while the display holds
\* what a frame drew in live mode, fading cells left out: the mode button was
\* pressed before that frame and again after it.
C12_Witness ==
  /\ Pressed("button_left")
  /\ settings.mode = DEFAULT_SETTINGS.mode
  /\ FrameRan
  /\ display = show_board(display, Source, "live", palette)
  /\ display # show_board(display, Source, "fade_out", palette)

\* C13: a handler that changes the configuration saves it before it returns,
\* and nothing else changes the configuration or the saved record: once a save
\* was issued the record saved last equals the configuration in memory, and
\* the defaults updated with that record are that configuration again.
C13_Persisted ==
  /\ [](store # <<>> =>
          /\ store = <<settings>>
          /\ settings_update(DEFAULT_SETTINGS, store[1]) = settings)
  /\ [][settings' # settings => store' = <<settings'>>]_vars
  /\ [][store' # store => store' = <<settings'>>]_vars

\* C13 witness: a configuration away from the defaults in both fields, reached
\* from a loaded delay by a speed press and a mode press, is the record saved.
C13_Witness ==
  /\ Pressed("button_left")
  /\ settings = [delay_ms |-> 4965, mode |-> "live"]
  /\ store = <<settings>>
  /\ settings_update(DEFAULT_SETTINGS, store[1]) = settings

\* C14: a call of any of the four button handlers with pressed = false leaves
\* the configuration, the saved record, the reset-pending flag, the grids, the
\* round counter and the display as they were, and calls the driver not at all.
C14_ReleaseIgnored ==
  [][(\E h \in Handlers : Released(h)') =>
       UNCHANGED <<settings, store, reset_flag, heap, board, next_board, board2, board3,
                   round, palette, display, calls, period, printed>>]_vars

\* C14 witness: the reset button was released in the middle of a run: the flag
\* is clear, the display still holds the frame drawn last, rounds are counted.
C14_Witness ==
  /\ Released("button_a")
  /\ ~reset_flag
  /\ round = 2
  /\ store # <<>>
  /\ calls = show_calls(Source, settings.mode, palette)
  /\ \E xy \in Pixels : display.pixels[xy] # OFF

\* The colour the claim gives pixel <<col, row>> for a cell of intensity v, OFF
\* standing for a pixel that is not drawn.
Drawn(v, mode, tint) ==
  IF mode = "fade_out"
  THEN IF v = 0 THEN OFF ELSE IF v = 9 THEN tint ELSE PALETTE_INIT[v]
  ELSE IF v = 9 THEN tint ELSE OFF
PixelCalls(cs) == SelectSeq(cs, LAMBDA call : call[1] = "pixel")
RowMajor(xy) == xy[2] * COLS + xy[1]

\* C15: show_board goes through the logical cells in row-major order and draws
\* pixel (col, row) from the cell at OFFSET + row*(COLS+2) + col: in fade_out
\* mode a cell of intensity i in 1..9 in palette entry i-1 (counted from 0), the
\* last entry being the tint chosen at the last reset; in live mode a cell of
\* intensity 9 in the tint and no cell of intensity 1..8; a cell at 0 is not
\* drawn in either mode, and no padding cell is drawn.
C15_ShowBoard ==
  [][FrameStep =>
       /\ palette'[9] \in Tints
       /\ \A i \in 1 .. 8 : palette'[i] = PALETTE_INIT[i]
       /\ \A xy \in Pixels :
            display'.pixels[xy] =
              Drawn(Source'[CellAt(xy[1], xy[2])], settings.mode, palette'[9])
       /\ LET px == PixelCalls(calls')
          IN /\ \A n \in DOMAIN px :
                  /\ px[n][3] \in Pixels
                  /\ px[n][2] # OFF
                  /\ px[n][2] =
                       Drawn(Source'[CellAt(px[n][3][1], px[n][3][2])], settings.mode,
                             palette'[9])
             /\ \A m, n \in DOMAIN px : m < n => RowMajor(px[m][3]) < RowMajor(px[n][3])
             /\ Len(px) =
                  Cardinality({xy \in Pixels :
                                 Drawn(Source'[CellAt(xy[1], xy[2])], settings.mode,
                                       palette'[9]) # OFF})]_vars

\* C15 witness: a frame drew in live mode a grid with cells at 9, at 8 and at 0:
\* the first are in the tint, the others are not drawn.
C15_Witness ==
  /\ FrameRan
  /\ settings.mode = "live"
  /\ calls = show_calls(Source, "live", palette)
  /\ \E xy \in Pixels : Source[CellAt(xy[1], xy[2])] = 9 /\ display.pixels[xy] = palette[9]
  /\ \E xy \in Pixels : Source[CellAt(xy[1], xy[2])] = 8 /\ display.pixels[xy] = OFF
  /\ \E xy \in Pixels : Source[CellAt(xy[1], xy[2])] = 0 /\ display.pixels[xy] = OFF
  /\ Len(PixelCalls(calls)) = Cardinality(LiveSet(Source))

\* Composition as the driver holds it when call n of cs is issued.
CompAt(d, cs, n) == rgb_calls(d, SubSeq(cs, 1, n - 1)).comp

\* C16: the calls a frame makes to the display are, in order: composition
\* disabled, clear, the pixel writes, composition enabled; the renderer issues
\* no clear and no pixel write while composition is enabled, and composition is
\* enabled when show_board returns.  (The clear of the reset button is not the
\* renderer's.)
C16_CallOrder ==
  [][FrameStep =>
       /\ Len(calls') >= 3
       /\ calls'[1] = DISABLECOMP
       /\ calls'[2] = CLEAR
       /\ calls'[Len(calls')] = ENABLECOMP
       /\ \A n \in 3 .. (Len(calls') - 1) : calls'[n][1] = "pixel"
       /\ \A n \in DOMAIN calls' :
            calls'[n][1] \in {"clear", "pixel"} => ~CompAt(display, calls', n)
       /\ display' = rgb_calls(display, calls')
       /\ display'.comp]_vars

\* C16 witness: a frame made its calls with pixel writes among them, and the
\* driver, which had composition enabled before, has it enabled again.
C16_Witness ==
  /\ FrameRan
  /\ Len(calls) > 5
  /\ calls[1] = DISABLECOMP
  /\ calls[2] = CLEAR
  /\ calls[3][1] = "pixel"
  /\ calls[Len(calls)] = ENABLECOMP
  /\ display.comp
  /\ \E xy \in Pixels : display.pixels[xy] # OFF

\* The grid the rule gives for the grid g: the rule on the logical cells, 0 on
\* the padding.
NextGrid(g) == [p \in Cells |-> IF p \in LogicalCells THEN Rule(g, p) ELSE 0]

\* C17: the grid a frame evolves is a function of the grid it renders alone:
\* evolve_board writes every logical cell of the output buffer, so what the
\* buffer held, the oldest history grid handed on by the rotation, has no part
\* in the new grid, and equal current grids give equal new grids.
C17_OutputDetermined ==
  /\ evolve_positions = LogicalCells
  /\ FrameRan => Evolved = NextGrid(Source)

\* C17 witness: after four frames of a run the buffer the next frame writes
\* holds an old grid, neither zero nor the grid to be written, as the buffer
\* written last did; the grid written last is the rule's.
C17_Witness ==
  /\ printed = <<>>
  /\ round >= 4
  /\ heap[next_board] # ZeroGrid
  /\ heap[next_board] # NextGrid(heap[board])
  /\ \E p \in LogicalCells : heap[next_board][p] # 0 /\ NextGrid(heap[board])[p] = 0
  /\ Evolved = NextGrid(Source)

\* C18: between frames, when the round counter is at least 1 the current grid
\* is the evolve of the grid of board2, and when it is at least 2 the grid of
\* board2 is the evolve of the grid of board3; the names board, next_board,
\* board2 and board3 are bound to four different buffers, so evolve_board never
\* reads the buffer it writes.
C18_HistoryWindow ==
  /\ round >= 1 => heap[board] = NextGrid(heap[board2])
  /\ round >= 2 => heap[board2] = NextGrid(heap[board3])
  /\ Cardinality(Names) = 4

\* C18 witness: two frames of a run have rotated the names, and the three grids
\* of the window are three different grids, each the evolve of the one before.
C18_Witness ==
  /\ printed = <<>>
  /\ round >= 2
  /\ board # 0
  /\ heap[board] = NextGrid(heap[board2])
  /\ heap[board2] = NextGrid(heap[board3])
  /\ heap[board] # heap[board2]
  /\ heap[board2] # heap[board3]
  /\ heap[board] # heap[board3]

\* C19: a frame that marks the run finished found the new grid equal to a grid
\* this run has rendered: the one of this frame, or the one of the frame
\* before, which board2 holds from the second frame of a run on, or the one
\* before that, which board3 holds from the third frame on; never only to a
\* zero grid that do_reset had put into board2 or board3.
C19_NoSpuriousFinish ==
  printed = FINISHED =>
    \/ Evolved = Source
    \/ round >= 1 /\ Evolved = Back1
    \/ round >= 2 /\ Evolved = Back2

\* C19 witness: the second frame of a run found a still life while board3 was
\* still the zero grid of do_reset.
C19_Witness ==
  /\ printed = FINISHED
  /\ round = 1
  /\ Back2 = ZeroGrid
  /\ Back1 # ZeroGrid
  /\ Evolved = Source
  /\ Evolved # ZeroGrid
  /\ Evolved # Back1

\* C20: a press of the reset button sets the reset-pending flag and clears the
\* display and leaves the grids, the round counter, the tint and the
\* configuration alone; a speed press changes of the configuration the delay
\* only, a mode press the mode only, either saving the record, and neither
\* touches the grids, the round counter, the tint or the flag; do_frame leaves
\* the configuration and the saved record alone.
C20_DisjointState ==
  /\ [][Pressed("button_a")' =>
          /\ reset_flag'
          /\ display' = rgb_clear(display)
          /\ UNCHANGED <<heap, board, next_board, board2, board3, round, palette,
                         settings, store>>]_vars
  /\ [][Pressed("button_up")' \/ Pressed("button_down")' =>
          /\ settings'.mode = settings.mode
          /\ store' \in {store, <<settings'>>}
          /\ UNCHANGED <<heap, board, next_board, board2, board3, round, palette,
                         reset_flag>>]_vars
  /\ [][Pressed("button_left")' =>
          /\ settings'.delay_ms = settings.delay_ms
          /\ store' = <<settings'>>
          /\ UNCHANGED <<heap, board, next_board, board2, board3, round, palette,
                         reset_flag, display>>]_vars
  /\ [][event' = <<"do_frame", TRUE>> => UNCHANGED <<settings, store>>]_vars

\* C20 witness: the reset button was pressed in the middle of a run: the flag
\* is set and the display is cleared, while the grid, the count of rounds, the
\* tint and the saved configuration are those the run had.
C20_Witness ==
  /\ Pressed("button_a")
  /\ reset_flag
  /\ printed = <<>>
  /\ round = 2
  /\ \A xy \in Pixels : display.pixels[xy] = OFF
  /\ heap[board] # ZeroGrid
  /\ heap[board] = NextGrid(heap[board2])
  /\ palette[9] = COLORS[2]
  /\ store = <<settings>>
  /\ settings.mode = "live"

====
